---- MODULE Spec2Model ----
(***************************************************************************)
(* nnsight: the instrumented Module wrapper (src/src/nnsight/module.py)    *)
(* and the Invoker scope (src/engine/contexts/Invoker.py), as one state    *)
(* machine.  The state is the per-module fields of Module, the session's   *)
(* (tracer / generator) graph, batch size, batch start, generation index   *)
(* and prompt list, and the fields of each Invoker.                        *)
(***************************************************************************)
EXTENDS Integers, Sequences, FiniteSets, TLC

(***************************************************************************)
(* Bounds of the model.                                                    *)
(***************************************************************************)
MaxSize == 3        \* graph nodes + placeholder entries (an input and an
                    \* output each) + call iterations, in total
MaxFake == 3        \* placeholder entries one module may hold
MaxHooks == 2       \* times wrap may be applied to one module
MaxPrompts == 3     \* prompts a session may hold
MaxGen == 2         \* largest generation_idx
MaxNodes == 2       \* graph nodes of a trace
MaxIter == 2        \* largest call_iter of a trace
MaxLen == 3         \* longest placeholder list a read is given
MaxCount == 3       \* largest call_iter a read is given

(***************************************************************************)
(* Python's None for a proxy reference (graph nodes are numbered from 1),  *)
(* and for a placeholder value.                                            *)
(***************************************************************************)
None == 0
NoValue == <<>>

(***************************************************************************)
(* The host's module tree: a root and one sub-module.  module_path is the  *)
(* dotted path of each.                                                    *)
(***************************************************************************)
Paths == {"t", "t.h"}

ChildrenOf(m) == IF m = "t" THEN <<"t.h">> ELSE <<>>

\* The host module "t.h" defines an attribute named output of its own.
HostAttr(m, name) == IF m = "t.h" /\ name = "output" THEN <<"orig">> ELSE <<"none">>

RECURSIVE modulesFrom(_)
\* torch.nn.Module.modules(): the module itself first, then its descendants.
modules(m) == modulesFrom(<<m>>)
modulesFrom(todo) ==
    IF todo = <<>> THEN <<>>
    ELSE <<Head(todo)>> \o modulesFrom(ChildrenOf(Head(todo)) \o Tail(todo))

Range(s) == {s[i] : i \in DOMAIN s}

(***************************************************************************)
(* Values a user assigns to an accessor, and the shapes a module call can  *)
(* observe.                                                                *)
(***************************************************************************)
AssignValues == {<<"zero">>, <<"one">>}
Shapes == {<<1, 1>>, <<1, 2>>}
OneShape == {<<1, 1>>}

VARIABLES
    mods,            \* module path -> the fields of the (wrapped) module
    graph,           \* tracer.graph: the nodes, in insertion order
    batch_size,      \* tracer.batch_size / generator.batch_size
    batch_start,     \* tracer.batch_start
    generation_idx,  \* generator.generation_idx
    prompts,         \* generator.prompts
    invokers,        \* invoker id -> the fields of the Invoker
    entered,         \* history: the invoker ids in the order their scopes were entered
    watch,           \* history: an observer of one clear() and of the first read
                     \* of one accessor of a module that clear() reached
    raised           \* the exception the last operation raised, NoError if none

vars == <<mods, graph, batch_size, batch_start, generation_idx, prompts,
          invokers, entered, watch, raised>>

NoError == ""

(***************************************************************************)
(* Module.__init__: the fields of a freshly wrapped module.                *)
(***************************************************************************)
ModuleInit(m) ==
    [ module_path  |-> m,
      call_iter    |-> 0,
      fake_outputs |-> <<>>,
      fake_inputs  |-> <<>>,
      _output      |-> None,
      _input       |-> None,
      tracer       |-> FALSE ]

\* A host module before wrapping: no Module fields yet, no hook.
Unwrapped(m) ==
    ModuleInit(m) @@
    [ wrapped   |-> FALSE,
      hooks     |-> 0,
      preserved |-> FALSE,
      output    |-> HostAttr(m, "output"),
      input     |-> HostAttr(m, "input") ]

\* isinstance(module, Module)
IsModule(ms, m) == ms[m].wrapped

(***************************************************************************)
(* reset_proxies / reset / clear / next, as functions of the module map.   *)
(***************************************************************************)
\* the module alone (propagate=False)
reset_proxies_self(ms, m) ==
    [ms EXCEPT ![m]._output = None, ![m]._input = None]

\* mutant of reset_self: the counter is not zeroed
reset_self_keeps_iter(ms, m) == reset_proxies_self(ms, m)

reset_self(ms, m) ==
    [reset_proxies_self(ms, m) EXCEPT ![m].call_iter = 0]

\* mutant of clear_self: the placeholder lists are kept
clear_self_keeps_fakes(ms, m) == reset_self(ms, m)

clear_self(ms, m) ==
    [reset_self(ms, m) EXCEPT ![m].fake_outputs = <<>>, ![m].fake_inputs = <<>>]

\* mutant of next_self: the cached proxies survive the step
next_self_keeps_proxies(ms, m, iteration) == [ms EXCEPT ![m].call_iter = @ + iteration]

next_self(ms, m, iteration) ==
    reset_proxies_self([ms EXCEPT ![m].call_iter = @ + iteration], m)

\* module.next(propagate=False): iteration takes its default, 1
next_default(ms, m) == next_self(ms, m, 1)

\* for module in seq: if isinstance(module, Module): module.op(propagate=False)
ForEach(ms, seq, op) ==
    LET f[i \in 0..Len(seq)] ==
            IF i = 0 THEN ms
            ELSE LET done == f[i - 1]
                 IN  IF ~IsModule(done, seq[i]) THEN done
                     ELSE CASE op = "reset_proxies" -> reset_proxies_self(done, seq[i])
                            [] op = "reset" -> reset_self(done, seq[i])
                            [] op = "clear" -> clear_self(done, seq[i])
                            [] op = "next" -> next_default(done, seq[i])
    IN  f[Len(seq)]

reset_proxies(ms, m, propagate) ==
    LET a == reset_proxies_self(ms, m)
    IN  IF propagate THEN ForEach(a, modules(m), "reset_proxies") ELSE a

reset(ms, m, propagate) ==
    LET a == reset_self(ms, m)
    IN  IF propagate THEN ForEach(a, modules(m), "reset") ELSE a

clear(ms, m, propagate) ==
    LET a == clear_self(ms, m)
    IN  IF propagate THEN ForEach(a, modules(m), "clear") ELSE a

next(ms, m, iteration, propagate) ==
    LET a == next_self(ms, m, iteration)
    IN  IF propagate THEN ForEach(a, modules(m), "next") ELSE a

(***************************************************************************)
(* Graph.add: append a node, the proxy is the node's position.  A node is  *)
(* [target, args, value]; args is laid out as named fields so that         *)
(* argument and swap nodes have one record type.                           *)
(***************************************************************************)
GraphAdd(g, node) == Append(g, node)

ArgumentNode(key, bs, start, iter, value) ==
    [ target |-> "argument", key |-> key, batch_size |-> bs,
      batch_start |-> start, call_iter |-> iter, value |-> value,
      ref |-> None, new |-> NoValue ]

SwapNode(ref, new) ==
    [ target |-> "swap", key |-> "", batch_size |-> 0,
      batch_start |-> 0, call_iter |-> 0, value |-> <<TRUE>>,
      ref |-> ref, new |-> new ]

\* mutant of fake_value: past the end of the list there is no placeholder
fake_value_strict(fakes, call_iter) ==
    IF call_iter >= Len(fakes) THEN NoValue ELSE fakes[call_iter + 1]

\* The placeholder the getters pick from a placeholder list (0-based index).
fake_value(fakes, call_iter) ==
    IF Len(fakes) = 0 THEN NoValue
    ELSE IF call_iter >= Len(fakes) THEN fakes[Len(fakes)]
    ELSE fakes[call_iter + 1]

(***************************************************************************)
(* The accessors.  st = [mods, graph]; the result is the state after the   *)
(* access, the proxy returned by a getter is st.mods[m]._output/_input.    *)
(***************************************************************************)
\* mutant of output_getter: no cache, every read adds a node
output_getter_uncached(st, m) ==
    LET g == GraphAdd(st.graph,
                 ArgumentNode(st.mods[m].module_path \o ".output",
                              batch_size, batch_start, st.mods[m].call_iter,
                              fake_value(st.mods[m].fake_outputs, st.mods[m].call_iter)))
    IN  [mods |-> [st.mods EXCEPT ![m]._output = Len(g)], graph |-> g]

output_getter(st, m) ==
    IF st.mods[m]._output # None THEN st
    ELSE LET fake_output == fake_value(st.mods[m].fake_outputs, st.mods[m].call_iter)
             g == GraphAdd(st.graph,
                     ArgumentNode(st.mods[m].module_path \o ".output",
                                  batch_size, batch_start,
                                  st.mods[m].call_iter, fake_output))
         IN  [mods |-> [st.mods EXCEPT ![m]._output = Len(g)], graph |-> g]

input_getter(st, m) ==
    IF st.mods[m]._input # None THEN st
    ELSE LET fake_input == fake_value(st.mods[m].fake_inputs, st.mods[m].call_iter)
             g == GraphAdd(st.graph,
                     ArgumentNode(st.mods[m].module_path \o ".input",
                                  batch_size, batch_start,
                                  st.mods[m].call_iter, fake_input))
         IN  [mods |-> [st.mods EXCEPT ![m]._input = Len(g)], graph |-> g]

\* getattr(module, name, None): the state after the lookup and its result.
\* A name that holds the intervention accessor runs the getter; with no
\* tracer set the getter raises AttributeError and the default is returned.
getattr(st, m, name) ==
    IF st.mods[m][name] = <<"nns">>
    THEN IF st.mods[m].tracer
         THEN LET a == IF name = "output" THEN output_getter(st, m)
                       ELSE input_getter(st, m)
              IN  [st |-> a,
                   val |-> <<"proxy", IF name = "output" THEN a.mods[m]._output
                                      ELSE a.mods[m]._input>>]
         ELSE [st |-> st, val |-> <<"none">>]
    ELSE [st |-> st, val |-> st.mods[m][name]]

\* mutant of output_setter: the cached proxy is not cleared
output_setter_keeps_proxy(st, m, value) ==
    LET a == getattr(st, m, "output")
    IN  IF a.val[1] # "proxy"
        THEN [mods |-> a.st.mods, graph |-> a.st.graph, raised |-> "AttributeError"]
        ELSE [mods |-> a.st.mods,
              graph |-> GraphAdd(a.st.graph, SwapNode(a.val[2], value)),
              raised |-> NoError]

\* self.output inside the setter is the attribute named output of the
\* module: the intervention proxy, or whatever else the name holds, which
\* has no node (AttributeError).
output_setter(st, m, value) ==
    LET a == getattr(st, m, "output")               \* self.output
    IN  IF a.val[1] # "proxy"
        THEN [mods |-> a.st.mods, graph |-> a.st.graph, raised |-> "AttributeError"]
        ELSE LET b == getattr(a.st, m, "output")    \* self.output.node
                 g == GraphAdd(b.st.graph, SwapNode(b.val[2], value))
             IN  [mods |-> [b.st.mods EXCEPT ![m]._output = None], graph |-> g,
                  raised |-> NoError]

input_setter(st, m, value) ==
    LET a == getattr(st, m, "input")
    IN  IF a.val[1] # "proxy"
        THEN [mods |-> a.st.mods, graph |-> a.st.graph, raised |-> "AttributeError"]
        ELSE LET b == getattr(a.st, m, "input")
                 g == GraphAdd(b.st.graph, SwapNode(b.val[2], value))
             IN  [mods |-> [b.st.mods EXCEPT ![m]._input = None], graph |-> g,
                  raised |-> NoError]

(***************************************************************************)
(* The forward hook registered by wrap.  fake says whether the call runs   *)
(* in fake (shape-only) mode; input and output are what the call observed. *)
(***************************************************************************)
\* mutant of hook: a call in fake mode also counts as a call iteration
hook_counts_call(ms, m, fake, input, input_kwargs, output) ==
    IF fake
    THEN LET a == reset_proxies(ms, m, TRUE)
         IN  [a EXCEPT ![m].fake_outputs = Append(@, output),
                       ![m].fake_inputs = Append(@, <<input, input_kwargs>>),
                       ![m].call_iter = @ + 1]
    ELSE ms

hook(ms, m, fake, input, input_kwargs, output) ==
    IF fake
    THEN LET a == reset_proxies(ms, m, TRUE)
         IN  [a EXCEPT ![m].fake_outputs = Append(@, output),
                       ![m].fake_inputs = Append(@, <<input, input_kwargs>>)]
    ELSE ms

\* One call of module m: each registered hook fires once, in order.
module_call(ms, m, fake, input, output) ==
    LET f[i \in 0..ms[m].hooks] ==
            IF i = 0 THEN ms ELSE hook(f[i - 1], m, fake, input, <<>>, output)
    IN  f[ms[m].hooks]

(***************************************************************************)
(* Module.wrap.                                                            *)
(***************************************************************************)
\* util.wrap(module, Module): a module that is a Module already is returned
\* as it is; otherwise it becomes one and Module.__init__ runs on it.
util_wrap(ms, m) ==
    IF IsModule(ms, m) THEN ms
    ELSE [ms EXCEPT ![m] = ModuleInit(m) @@
                           [ wrapped |-> TRUE, hooks |-> @.hooks,
                             preserved |-> FALSE,
                             output |-> <<"nns">>, input |-> <<"nns">> ]]

register_forward_hook(ms, m) == [ms EXCEPT ![m].hooks = @ + 1]

wrap(st, m) ==
    LET o == getattr(st, m, "output")
        i == getattr(o.st, m, "input")
        original_output == o.val
        original_input == i.val
        w == util_wrap(i.st.mods, m)
        p == IF original_output # <<"none">> \/ original_input # <<"none">>
             THEN [w EXCEPT ![m].preserved = TRUE,
                            ![m].output = original_output,
                            ![m].input = original_input]
             ELSE w
    IN  [mods |-> register_forward_hook(p, m), graph |-> i.st.graph]

(***************************************************************************)
(* The host model, as the Invoker uses it.  A raw input is a list of       *)
(* texts, a text a list of characters; the tokenizer has one token per     *)
(* character.                                                              *)
(***************************************************************************)
InvokerIds == {"i1", "i2"}
RawInputs == { << <<"A">> >>, << <<"B", "B">> >>, << <<"A">>, <<"B", "B">> >> }

encode(ch) == CASE ch = "A" -> 1 [] ch = "B" -> 2 [] OTHER -> 3
decode(token) == CASE token = 1 -> "A" [] token = 2 -> "B" [] OTHER -> "_"

\* model.prepare_inputs(raw): the batch of token ids
prepare_inputs(raw) ==
    [input_ids |-> [k \in DOMAIN raw |-> [j \in DOMAIN raw[k] |-> encode(raw[k][j])]]]

\* the filler input of Invoker.next: ["_"] * batch_size
filler(n) == [k \in 1..n |-> <<"_">>]

\* "".join(tokens)
join(tokens) ==
    LET f[j \in 0..Len(tokens)] == IF j = 0 THEN "" ELSE f[j - 1] \o tokens[j]
    IN  f[Len(tokens)]

\* The shape every module call of a pass over the batch observes:
\* (examples, positions of the longest example).
shape_of(input_ids) ==
    LET longest == IF input_ids = <<>> THEN 0
                   ELSE CHOOSE n \in {Len(input_ids[k]) : k \in DOMAIN input_ids} :
                            \A k \in DOMAIN input_ids : Len(input_ids[k]) <= n
    IN  <<Len(input_ids), longest>>

\* The order in which the calls of one pass complete: sub-modules first.
call_order == LET pre == modules("t")
              IN  [k \in DOMAIN pre |-> pre[Len(pre) + 1 - k]]

\* model.run_meta(inputs): one pass in fake mode, every module called once.
run_meta(ms, inputs) ==
    LET sh == shape_of(inputs.input_ids)
        f[k \in 0..Len(call_order)] ==
            IF k = 0 THEN ms
            ELSE module_call(f[k - 1], call_order[k], TRUE, sh, sh)
    IN  f[Len(call_order)]

\* Invoker.__init__
InvokerInit(raw) ==
    [made |-> TRUE, input |-> raw, tokens |-> NoValue, ids |-> NoValue, scope |-> "new",
     saved |-> NoValue]

NoInvoker == [made |-> FALSE, input |-> <<>>, tokens |-> NoValue, ids |-> NoValue,
              scope |-> "new", saved |-> NoValue]

(***************************************************************************)
(* Invoker.__enter__, as a function of the session state                   *)
(* s = [mods, generation_idx, batch_size, prompts, inv] (inv: the Invoker).*)
(***************************************************************************)
\* mutant of enter: the prompt list is replaced, not extended
enter_replaces_prompts(s) ==
    LET inputs == prepare_inputs(s.inv.input)
        ms     == run_meta(s.mods, inputs)
        ids    == inputs.input_ids
        tokens == [k \in DOMAIN ids |-> [j \in DOMAIN ids[k] |-> decode(ids[k][j])]]
        one    == Len(tokens) = 1
    IN  [ mods           |-> ms,
          generation_idx |-> 0,
          batch_size     |-> Len(ids),
          prompts        |-> [k \in DOMAIN tokens |-> join(tokens[k])],
          inv            |-> [s.inv EXCEPT !.tokens = IF one THEN tokens[1] ELSE tokens,
                                           !.ids = IF one THEN ids[1] ELSE ids,
                                           !.scope = "entered"] ]

\* mutant of enter: generation_idx is left as it is
enter_keeps_generation_idx(s) ==
    LET inputs == prepare_inputs(s.inv.input)
        ms     == run_meta(s.mods, inputs)
        ids    == inputs.input_ids
        tokens == [k \in DOMAIN ids |-> [j \in DOMAIN ids[k] |-> decode(ids[k][j])]]
        one    == Len(tokens) = 1
    IN  [ mods           |-> ms,
          generation_idx |-> s.generation_idx,
          batch_size     |-> Len(ids),
          prompts        |-> s.prompts \o [k \in DOMAIN tokens |-> join(tokens[k])],
          inv            |-> [s.inv EXCEPT !.tokens = IF one THEN tokens[1] ELSE tokens,
                                           !.ids = IF one THEN ids[1] ELSE ids,
                                           !.scope = "entered"] ]

enter(s) ==
    LET inputs == prepare_inputs(s.inv.input)
        ms     == run_meta(s.mods, inputs)
        ids    == inputs.input_ids
        tokens == [k \in DOMAIN ids |-> [j \in DOMAIN ids[k] |-> decode(ids[k][j])]]
        one    == Len(tokens) = 1
    IN  [ mods           |-> ms,
          generation_idx |-> 0,
          batch_size     |-> Len(ids),
          prompts        |-> s.prompts \o [k \in DOMAIN tokens |-> join(tokens[k])],
          inv            |-> [s.inv EXCEPT !.tokens = IF one THEN tokens[1] ELSE tokens,
                                           !.ids = IF one THEN ids[1] ELSE ids,
                                           !.scope = "entered"] ]

\* the calls of __enter__ into the host model that can raise
FailPoints == {"prepare_inputs", "run_meta"}

\* model.run_meta(inputs) raising in the forward of the module called after
\* the first done ones: their hooks fired, the others did not
run_meta_raises(ms, inputs, done) ==
    LET sh == shape_of(inputs.input_ids)
        f[k \in 0..done] ==
            IF k = 0 THEN ms
            ELSE module_call(f[k - 1], call_order[k], TRUE, sh, sh)
    IN  f[done]

\* mutant of enter_raises: the invocation is recorded before the host model
\* is called
enter_raises_after_record(s, at, done) ==
    [enter(s) EXCEPT !.mods = IF at = "prepare_inputs" THEN s.mods
                              ELSE run_meta_raises(s.mods, prepare_inputs(s.inv.input), done),
                     !.inv.scope = s.inv.scope]

\* Invoker.__enter__ when the call at the fail point raises: the statements
\* before it ran, the exception leaves __enter__, the rest did not run
enter_raises(s, at, done) ==
    [s EXCEPT !.generation_idx = 0,
              !.mods = IF at = "prepare_inputs" THEN s.mods
                       ELSE run_meta_raises(s.mods, prepare_inputs(s.inv.input), done)]

\* mutant of invoker_next: the step is counted, no pass is run
invoker_next_skips_pass(s) == [s EXCEPT !.generation_idx = @ + 1]

\* Invoker.next
invoker_next(s) ==
    LET inputs == prepare_inputs(filler(s.batch_size))
    IN  [s EXCEPT !.generation_idx = @ + 1,
                  !.mods = run_meta(s.mods, inputs)]

(***************************************************************************)
(* Invoker.save, as a function of st = [mods, graph].  result maps a       *)
(* module path to what module.output.save() returned, NoValue where there  *)
(* is no entry.  An output attribute that is not a proxy has no save()     *)
(* (AttributeError), and the loop ends there.                              *)
(***************************************************************************)
\* Proxy.save(): the proxy, marked to keep its value
proxy_save(proxy) == <<"save", proxy>>

\* self.generator.model.meta_model.named_modules()
named_modules == modules("t")

save(st) ==
    LET f[k \in 0..Len(named_modules)] ==
            IF k = 0
            THEN [mods |-> st.mods, graph |-> st.graph,
                  result |-> [q \in Paths |-> NoValue], raised |-> NoError]
            ELSE LET d == f[k - 1]
                     m == named_modules[k]
                     o == getattr([mods |-> d.mods, graph |-> d.graph], m, "output")
                 IN  IF d.raised # NoError THEN d
                     ELSE IF o.val[1] # "proxy"
                     THEN [mods |-> o.st.mods, graph |-> o.st.graph,
                           result |-> d.result, raised |-> "AttributeError"]
                     ELSE [mods |-> o.st.mods, graph |-> o.st.graph,
                           result |-> [d.result EXCEPT ![o.st.mods[m].module_path] =
                                                           proxy_save(o.val[2])],
                           raised |-> NoError]
    IN  f[Len(named_modules)]

Session(i) == [mods |-> mods, generation_idx |-> generation_idx,
               batch_size |-> batch_size, prompts |-> prompts, inv |-> invokers[i]]

(***************************************************************************)
(* Bounds on what a step may produce.                                      *)
(***************************************************************************)
SizeOf(ms, g) ==
    LET n[k \in 0..Len(call_order)] ==
            IF k = 0 THEN 0
            ELSE n[k - 1] + Len(ms[call_order[k]].fake_outputs)
                          + ms[call_order[k]].call_iter
    IN  Len(g) + n[Len(call_order)]

WithinBounds(ms, g) ==
    /\ SizeOf(ms, g) <= MaxSize
    /\ \A m \in Paths : /\ Len(ms[m].fake_outputs) <= MaxFake
                        /\ ms[m].hooks <= MaxHooks

WithinScan(ms) ==
    \A m \in Paths : Len(ms[m].fake_outputs) <= MaxFake

(***************************************************************************)
(* The history variable watch observes, in a specification whose initial   *)
(* state sets it to Idle, a clear() (any one: a clear() arms it or not)    *)
(* and accessor kind of a module m that this clear() reached, up to the    *)
(* first read of that accessor:                                            *)
(*   st = "idle"   nothing under observation                               *)
(*   st = "fresh"  clear() reached m; since then only reset_proxies,       *)
(*                 reset, clear, next and calls outside placeholder mode   *)
(*                 happened, and m's call_iter did not move                *)
(*   st = "moved"  as "fresh", but next() advanced m's call_iter since     *)
(*   st = "read"   the step just taken was the first read of kind since    *)
(*                 the clear(), taken from "fresh"                         *)
(*   st = "off"    not observing                                           *)
(* A placeholder-mode hook, or a node appended for another accessor, ends  *)
(* the observation.                                                        *)
(***************************************************************************)
Kinds == {"output", "input"}
Off == [st |-> "off", m |-> "", kind |-> ""]
Idle == [Off EXCEPT !.st = "idle"]

NewArgument(g, g2, key) ==
    \E p \in (Len(g) + 1)..Len(g2) : g2[p].target = "argument" /\ g2[p].key = key

Track ==
    IF watch.st \in {"off", "idle"} THEN watch
    ELSE IF \/ watch.st = "read"
            \/ \E x \in Paths : Len(mods'[x].fake_outputs) > Len(mods[x].fake_outputs)
    THEN Idle
    ELSE IF NewArgument(graph, graph', watch.m \o "." \o watch.kind)
    THEN IF watch.st = "fresh" THEN [watch EXCEPT !.st = "read"] ELSE Idle
    ELSE IF Len(graph') > Len(graph)
    THEN Idle
    ELSE IF mods'[watch.m].call_iter > mods[watch.m].call_iter
    THEN [watch EXCEPT !.st = "moved"]
    ELSE watch

Tracked == watch' = Track

TrackedClear(m, propagate) ==
    \/ watch' = Track
    \/ /\ watch.st = "idle"
       /\ \E x \in Paths, kind \in Kinds :
            /\ x = m \/ (propagate /\ x \in Range(modules(m)) /\ IsModule(mods, x))
            /\ watch' = [st |-> "fresh", m |-> x, kind |-> kind]

(***************************************************************************)
(* The state after construction: the host model is built, nothing is       *)
(* wrapped, the session is open and empty.                                 *)
(***************************************************************************)
Init ==
    /\ mods = [m \in Paths |-> Unwrapped(m)]
    /\ graph = <<>>
    /\ batch_size = 0
    /\ batch_start = 0
    /\ generation_idx = 0
    /\ prompts = <<>>
    /\ invokers = [i \in InvokerIds |-> NoInvoker]
    /\ entered = <<>>
    /\ watch = Off
    /\ raised = NoError

sessionVars == <<batch_size, batch_start, generation_idx, prompts, invokers, entered>>

(***************************************************************************)
(* Actions on modules.                                                     *)
(***************************************************************************)
Wrap(m) ==
    /\ LET r == wrap([mods |-> mods, graph |-> graph], m)
       IN  /\ WithinBounds(r.mods, r.graph)
           /\ mods' = r.mods
           /\ graph' = r.graph
    /\ UNCHANGED sessionVars
    /\ Tracked
    /\ raised' = NoError

\* module.tracer = tracer, set by the caller on a wrapped module
SetTracer(m) ==
    /\ IsModule(mods, m)
    /\ ~mods[m].tracer
    /\ mods' = [mods EXCEPT ![m].tracer = TRUE]
    /\ UNCHANGED <<graph, sessionVars>>
    /\ Tracked
    /\ raised' = NoError

ResetProxies(m, propagate) ==
    /\ IsModule(mods, m)
    /\ mods' = reset_proxies(mods, m, propagate)
    /\ UNCHANGED <<graph, sessionVars>>
    /\ Tracked
    /\ raised' = NoError

Reset(m, propagate) ==
    /\ IsModule(mods, m)
    /\ mods' = reset(mods, m, propagate)
    /\ UNCHANGED <<graph, sessionVars>>
    /\ Tracked
    /\ raised' = NoError

Clear(m, propagate) ==
    /\ IsModule(mods, m)
    /\ mods' = clear(mods, m, propagate)
    /\ UNCHANGED <<graph, sessionVars>>
    /\ TrackedClear(m, propagate)
    /\ raised' = NoError

ModuleNext(m, iteration, propagate) ==
    /\ IsModule(mods, m)
    /\ LET r == next(mods, m, iteration, propagate)
       IN  /\ WithinBounds(r, graph)
           /\ mods' = r
    /\ UNCHANGED <<graph, sessionVars>>
    /\ Tracked
    /\ raised' = NoError

ReadOutput(m) ==
    /\ IsModule(mods, m) /\ mods[m].tracer
    /\ LET r == output_getter([mods |-> mods, graph |-> graph], m)
       IN  /\ WithinBounds(r.mods, r.graph)
           /\ mods' = r.mods
           /\ graph' = r.graph
    /\ UNCHANGED sessionVars
    /\ Tracked
    /\ raised' = NoError

ReadInput(m) ==
    /\ IsModule(mods, m) /\ mods[m].tracer
    /\ LET r == input_getter([mods |-> mods, graph |-> graph], m)
       IN  /\ WithinBounds(r.mods, r.graph)
           /\ mods' = r.mods
           /\ graph' = r.graph
    /\ UNCHANGED sessionVars
    /\ Tracked
    /\ raised' = NoError

AssignOutput(m, value) ==
    /\ IsModule(mods, m) /\ mods[m].tracer
    /\ LET r == output_setter([mods |-> mods, graph |-> graph], m, value)
       IN  /\ WithinBounds(r.mods, r.graph)
           /\ mods' = r.mods
           /\ graph' = r.graph
           /\ raised' = r.raised
    /\ UNCHANGED sessionVars
    /\ Tracked

AssignInput(m, value) ==
    /\ IsModule(mods, m) /\ mods[m].tracer
    /\ LET r == input_setter([mods |-> mods, graph |-> graph], m, value)
       IN  /\ WithinBounds(r.mods, r.graph)
           /\ mods' = r.mods
           /\ graph' = r.graph
           /\ raised' = r.raised
    /\ UNCHANGED sessionVars
    /\ Tracked

\* One call of module m, in fake mode or not, outside a scan pass.
ModuleCall(m, fake, sh) ==
    /\ LET r == module_call(mods, m, fake, sh, sh)
       IN  /\ WithinBounds(r, graph)
           /\ mods' = r
    /\ UNCHANGED <<graph, sessionVars>>
    /\ Tracked
    /\ raised' = NoError

(***************************************************************************)
(* Actions on Invokers.                                                    *)
(***************************************************************************)
\* generator.invoke(input): a new Invoker
Invoke(i, raw) ==
    /\ ~invokers[i].made
    /\ invokers' = [invokers EXCEPT ![i] = InvokerInit(raw)]
    /\ UNCHANGED <<mods, graph, batch_size, batch_start, generation_idx, prompts,
                   entered, watch>>
    /\ raised' = NoError

Enter(i) ==
    /\ invokers[i].made
    /\ LET r == enter(Session(i))
       IN  /\ WithinScan(r.mods)
           /\ Len(r.prompts) <= MaxPrompts
           /\ mods' = r.mods
           /\ generation_idx' = r.generation_idx
           /\ batch_size' = r.batch_size
           /\ prompts' = r.prompts
           /\ invokers' = [invokers EXCEPT ![i] = r.inv]
    /\ entered' = Append(entered, i)
    /\ UNCHANGED <<graph, batch_start>>
    /\ Tracked
    /\ raised' = NoError

\* Invoker.__exit__
\* __enter__ leaves with the host's exception: the with block is not run
EnterRaises(i, at, done) ==
    /\ invokers[i].made
    /\ LET r == enter_raises(Session(i), at, done)
       IN  /\ WithinScan(r.mods)
           /\ Len(r.prompts) <= MaxPrompts
           /\ mods' = r.mods
           /\ generation_idx' = r.generation_idx
           /\ batch_size' = r.batch_size
           /\ prompts' = r.prompts
           /\ invokers' = [invokers EXCEPT ![i] = r.inv]
    /\ UNCHANGED <<graph, batch_start, entered>>
    /\ Tracked
    /\ raised' = "HostError"

Exit(i) ==
    /\ invokers[i].scope = "entered"
    /\ invokers' = [invokers EXCEPT ![i].scope = "exited"]
    /\ UNCHANGED <<mods, graph, batch_size, batch_start, generation_idx, prompts,
                   entered, watch>>
    /\ raised' = NoError

InvokerNext(i) ==
    /\ invokers[i].made
    /\ LET r == invoker_next(Session(i))
       IN  /\ WithinScan(r.mods)
           /\ r.generation_idx <= MaxGen
           /\ mods' = r.mods
           /\ generation_idx' = r.generation_idx
    /\ UNCHANGED <<graph, batch_size, batch_start, prompts, invokers, entered>>
    /\ Tracked
    /\ raised' = NoError

\* Invoker.save; the mapping it returns is kept in the Invoker's record
Save(i) ==
    /\ invokers[i].made
    /\ LET r == save([mods |-> mods, graph |-> graph])
       IN  /\ Len(r.graph) <= MaxNodes
           /\ mods' = r.mods
           /\ graph' = r.graph
           /\ raised' = r.raised
           /\ invokers' = IF r.raised = NoError
                          THEN [invokers EXCEPT ![i].saved = r.result]
                          ELSE invokers
    /\ UNCHANGED <<batch_size, batch_start, generation_idx, prompts, entered>>
    /\ Tracked

(***************************************************************************)
(* Reads and module steps of a trace, between the passes of its Invokers:  *)
(* the getters and Module.next again, bounded by the trace's own bounds.   *)
(***************************************************************************)
Access(m, kind) ==
    /\ IsModule(mods, m) /\ mods[m].tracer
    /\ LET st == [mods |-> mods, graph |-> graph]
           r  == IF kind = "output" THEN output_getter(st, m) ELSE input_getter(st, m)
       IN  /\ Len(r.graph) <= MaxNodes
           /\ mods' = r.mods
           /\ graph' = r.graph
    /\ UNCHANGED sessionVars
    /\ Tracked
    /\ raised' = NoError

Advance(m, iteration, propagate) ==
    /\ IsModule(mods, m)
    /\ LET r == next(mods, m, iteration, propagate)
       IN  /\ \A x \in Paths : r[x].call_iter <= MaxIter
           /\ mods' = r
    /\ UNCHANGED <<graph, sessionVars>>
    /\ Tracked
    /\ raised' = NoError

Next ==
    \/ \E m \in Paths : Wrap(m)
    \/ \E m \in Paths : SetTracer(m)
    \/ \E m \in Paths, p \in BOOLEAN : ResetProxies(m, p)
    \/ \E m \in Paths, p \in BOOLEAN : Reset(m, p)
    \/ \E m \in Paths, p \in BOOLEAN : Clear(m, p)
    \/ \E m \in Paths, k \in 1..2, p \in BOOLEAN : ModuleNext(m, k, p)
    \/ \E m \in Paths : ReadOutput(m)
    \/ \E m \in Paths : ReadInput(m)
    \/ \E m \in Paths, v \in AssignValues : AssignOutput(m, v)
    \/ \E m \in Paths, v \in AssignValues : AssignInput(m, v)
    \/ \E m \in Paths, fake \in BOOLEAN, sh \in Shapes : ModuleCall(m, fake, sh)
    \/ \E i \in InvokerIds, raw \in RawInputs : Invoke(i, raw)
    \/ \E i \in InvokerIds : Enter(i)
    \/ \E i \in InvokerIds, at \in FailPoints, done \in 0..(Len(call_order) - 1) :
          EnterRaises(i, at, done)
    \/ \E i \in InvokerIds : Exit(i)
    \/ \E i \in InvokerIds : InvokerNext(i)
    \/ \E i \in InvokerIds : Save(i)
    \/ \E m \in Paths, kind \in Kinds : Access(m, kind)
    \/ \E m \in Paths, k \in 1..2, p \in BOOLEAN : Advance(m, k, p)

\* The whole program: wrapping, module operations and Invoker scopes.
Spec == Init /\ [][Next]_vars

(***************************************************************************)
(* The instrumented model as a session finds it: every module wrapped once *)
(* and its tracer set (reached from Init by Wrap and SetTracer).  The host *)
(* is one whose modules have no attribute named output or input            *)
(* (Instrumented), or the host of Init, where "t.h" has one (Colliding).   *)
(***************************************************************************)
PlainHost ==
    [m \in Paths |-> [Unwrapped(m) EXCEPT !.output = <<"none">>, !.input = <<"none">>]]

CollidingHost == [m \in Paths |-> Unwrapped(m)]

InstrumentedFrom(host) ==
    LET w == [m \in Paths |-> wrap([mods |-> host, graph |-> <<>>], m).mods[m]]
    IN  [m \in Paths |-> [w[m] EXCEPT !.tracer = TRUE]]

Instrumented == InstrumentedFrom(PlainHost)

Colliding == InstrumentedFrom(CollidingHost)

InitModule ==
    /\ mods = Instrumented
    /\ graph = <<>>
    /\ batch_size = 1
    /\ batch_start = 0
    /\ generation_idx = 0
    /\ prompts = <<>>
    /\ invokers = [i \in InvokerIds |-> NoInvoker]
    /\ entered = <<>>
    /\ watch = Off
    /\ raised = NoError

\* The operations of Module on an instrumented model.
NextModule ==
    \/ \E m \in Paths, p \in BOOLEAN : ResetProxies(m, p)
    \/ \E m \in Paths, p \in BOOLEAN : Reset(m, p)
    \/ \E m \in Paths, p \in BOOLEAN : Clear(m, p)
    \/ \E m \in Paths, k \in 1..2, p \in BOOLEAN : ModuleNext(m, k, p)
    \/ \E m \in Paths : ReadOutput(m)
    \/ \E m \in Paths : ReadInput(m)
    \/ \E m \in Paths, v \in AssignValues : AssignOutput(m, v)
    \/ \E m \in Paths, v \in AssignValues : AssignInput(m, v)
    \/ \E m \in Paths, fake \in BOOLEAN, sh \in OneShape : ModuleCall(m, fake, sh)

SpecModule == InitModule /\ [][NextModule]_vars

(***************************************************************************)
(* The same model with the observer of clear() on, and the operations that *)
(* can stand between a clear() and the read after it: counters, caches,    *)
(* placeholder-mode calls and reads.                                       *)
(***************************************************************************)
InitClear ==
    /\ mods = Instrumented
    /\ graph = <<>>
    /\ batch_size = 1
    /\ batch_start = 0
    /\ generation_idx = 0
    /\ prompts = <<>>
    /\ invokers = [i \in InvokerIds |-> NoInvoker]
    /\ entered = <<>>
    /\ watch = Idle
    /\ raised = NoError

NextClear ==
    \/ \E m \in Paths, p \in BOOLEAN : Reset(m, p)
    \/ \E m \in Paths, p \in BOOLEAN : Clear(m, p)
    \/ \E m \in Paths, k \in 1..2, p \in BOOLEAN : ModuleNext(m, k, p)
    \/ \E m \in Paths : ReadOutput(m)
    \/ \E m \in Paths : ReadInput(m)
    \/ \E m \in Paths, sh \in OneShape : ModuleCall(m, TRUE, sh)

SpecClear == InitClear /\ [][NextClear]_vars

(***************************************************************************)
(* Helpers of the properties.                                              *)
(***************************************************************************)
\* the cached proxy of accessor kind of module m
Cached(ms, m, kind) == IF kind = "output" THEN ms[m]._output ELSE ms[m]._input

\* the positions of the argument nodes for key that a step appended
Appended(key) ==
    {p \in (Len(graph) + 1)..Len(graph') :
        graph'[p].target = "argument" /\ graph'[p].key = key}

\* the graph only grows, and no node in it changes
AppendOnly == \A q \in DOMAIN graph : q \in DOMAIN graph' /\ graph'[q] = graph[q]

RECURSIVE Below(_)
\* m and the modules under it, from the tree alone
Below(m) == {m} \cup UNION {Below(ChildrenOf(m)[k]) : k \in DOMAIN ChildrenOf(m)}

\* the modules an operation on m reaches: m, and with propagate every
\* wrapped module under it
Reached(m, propagate) ==
    {x \in Paths : x = m \/ (propagate /\ x \in Below(m) /\ IsModule(mods, x))}

(***************************************************************************)
(* C4.  After next(k), with propagate or without, the module's cached      *)
(* proxies are cleared, its call_iter is exactly k greater, and its        *)
(* placeholder lists and the nodes already in the graph are unchanged.     *)
(* Fails with propagate=True: modules() yields the module itself, which    *)
(* then takes one more step of 1 (module.py:110-113).                      *)
(***************************************************************************)
C4_NextAddsK ==
    [][\A m \in Paths, k \in 1..2, p \in BOOLEAN :
          (IsModule(mods, m) /\ ModuleNext(m, k, p))
              => /\ mods'[m]._output = None /\ mods'[m]._input = None
                 /\ mods'[m].call_iter = mods[m].call_iter + k
                 /\ mods'[m].fake_outputs = mods[m].fake_outputs
                 /\ mods'[m].fake_inputs = mods[m].fake_inputs
                 /\ AppendOnly]_vars

NextWrap ==
    \/ \E m \in Paths : Wrap(m)
    \/ \E m \in Paths : SetTracer(m)
    \/ \E m \in Paths : ReadOutput(m)
    \/ \E m \in Paths : ReadInput(m)
    \/ \E m \in Paths, fake \in BOOLEAN, sh \in Shapes : ModuleCall(m, fake, sh)

SpecWrap == Init /\ [][NextWrap]_vars

(***************************************************************************)
(* C1.  Module.wrap is idempotent: wrapping a module that is wrapped       *)
(* already changes nothing, the completion hook is installed once; so one  *)
(* placeholder-mode call of a wrapped module, wrapped once or twice,       *)
(* appends exactly one entry to each of its placeholder lists.             *)
(* Fails: wrap registers its hook again on every call (module.py:307).     *)
(***************************************************************************)
C1_WrapIdempotent ==
    [][\A m \in Paths, sh \in Shapes :
          (IsModule(mods, m) /\ ModuleCall(m, TRUE, sh))
              => /\ Len(mods'[m].fake_outputs) = Len(mods[m].fake_outputs) + 1
                 /\ Len(mods'[m].fake_inputs) = Len(mods[m].fake_inputs) + 1]_vars

(***************************************************************************)
(* C6.  Assigning to a module's output (input) appends exactly one swap    *)
(* node; its first argument is the node of the module's current output     *)
(* (input) proxy, which is in the graph at an earlier position (created    *)
(* first, as one argument node, when no proxy was cached), its second      *)
(* argument is the assigned value; afterwards the cached proxy is cleared, *)
(* and a read with no cached proxy appends a new argument node, distinct   *)
(* from every node a swap references.                                      *)
(***************************************************************************)
AssignedTo(m, kind, value) ==
    LET key  == mods[m].module_path \o "." \o kind
        c    == Cached(mods, m, kind)
        last == Len(graph')
        ref  == IF c # None THEN c ELSE Len(graph) + 1
    IN  /\ AppendOnly
        /\ last = IF c # None THEN Len(graph) + 1 ELSE Len(graph) + 2
        /\ graph'[last].target = "swap"
        /\ graph'[last].new = value
        /\ graph'[last].ref = ref
        /\ ref < last
        /\ graph'[ref].target = "argument" /\ graph'[ref].key = key
        /\ \A q \in (Len(graph) + 1)..(last - 1) : graph'[q].target = "argument"
        /\ Cached(mods', m, kind) = None
        /\ raised' = NoError

ReadFresh(m, kind) ==
    Cached(mods, m, kind) = None
        => /\ Cached(mods', m, kind) = Len(graph')
           /\ Len(graph') = Len(graph) + 1
           /\ graph'[Len(graph')].target = "argument"
           /\ \A q \in DOMAIN graph' :
                  graph'[q].target = "swap" => graph'[q].ref # Len(graph')

C6_AssignAppendsSwap ==
    [][\A m \in Paths :
          /\ \A v \in AssignValues :
                /\ (~mods[m].preserved /\ AssignOutput(m, v))
                      => AssignedTo(m, "output", v)
                /\ (~mods[m].preserved /\ AssignInput(m, v))
                      => AssignedTo(m, "input", v)
          /\ ReadOutput(m) => ReadFresh(m, "output")
          /\ ReadInput(m) => ReadFresh(m, "input")]_vars

\* An assignment was made with a proxy cached or not, and the read after it
\* has returned a new proxy: the swap references an earlier argument node of
\* the accessor, the cached proxy is a later node of the same accessor.
C6_Witness ==
    \E m \in Paths, kind \in Kinds, p \in DOMAIN graph :
        /\ graph[p].target = "swap"
        /\ graph[graph[p].ref].key = m \o "." \o kind
        /\ graph[p].ref < p
        /\ Cached(mods, m, kind) # None
        /\ Cached(mods, m, kind) > p
        /\ graph[Cached(mods, m, kind)].key = m \o "." \o kind

(***************************************************************************)
(* C7.  Reads are cached.  While a proxy is cached for an accessor no      *)
(* argument node is appended for it, a read changes nothing and the proxy  *)
(* stays the same until a cache-clearing event (reset_proxies, reset,      *)
(* clear, next, an assignment to the accessor, a placeholder-mode hook)    *)
(* drops it; with no proxy cached a read appends exactly one argument      *)
(* node, which records the key, the session's batch size and batch offset  *)
(* and the module's call_iter as they are at that read.                    *)
(***************************************************************************)
ClearingEvent(m, kind) ==
    \/ \E x \in Paths, p \in BOOLEAN :
          ResetProxies(x, p) \/ Reset(x, p) \/ Clear(x, p)
    \/ \E x \in Paths, k \in 1..2, p \in BOOLEAN : ModuleNext(x, k, p)
    \/ \E x \in Paths, sh \in Shapes : ModuleCall(x, TRUE, sh)
    \/ \E v \in AssignValues :
          IF kind = "output" THEN AssignOutput(m, v) ELSE AssignInput(m, v)

ReadCached(m, kind) ==
    LET key == mods[m].module_path \o "." \o kind
        c   == Cached(mods, m, kind)
        c2  == Cached(mods', m, kind)
        isRead == IF kind = "output" THEN ReadOutput(m) ELSE ReadInput(m)
    IN  /\ c # None
           => /\ Appended(key) = {}
              /\ c2 \in {c, None}
              /\ c2 = None => ClearingEvent(m, kind)
              /\ isRead => (mods' = mods /\ graph' = graph)
              /\ graph[c].target = "argument" /\ graph[c].key = key
        /\ c = None
           => /\ Cardinality(Appended(key)) <= 1
              /\ \A p \in Appended(key) :
                    /\ graph'[p].batch_size = batch_size
                    /\ graph'[p].batch_start = batch_start
                    /\ graph'[p].call_iter = mods[m].call_iter
                    /\ c2 \in {p, None}
              /\ Appended(key) = {} => c2 = None
              /\ isRead => (Cardinality(Appended(key)) = 1 /\ c2 # None)

C7_ReadsAreCached ==
    [][AppendOnly /\ \A m \in Paths, kind \in Kinds : ReadCached(m, kind)]_vars

\* Both accessors of a module have been read after next() moved its
\* counter: each has its proxy cached, the one node appended for it, which
\* records the counter and the session's batch size.
C7_Witness ==
    \E m \in Paths :
        /\ mods[m].call_iter > 0
        /\ mods[m]._output # None /\ mods[m]._input # None
        /\ graph[mods[m]._output].key = m \o ".output"
        /\ graph[mods[m]._input].key = m \o ".input"
        /\ graph[mods[m]._output].call_iter = mods[m].call_iter
        /\ graph[mods[m]._output].batch_size = batch_size
        /\ Cardinality({q \in DOMAIN graph : graph[q].target = "argument"}) = 2

(***************************************************************************)
(* C8.  The three reset operations nest exactly.  reset_proxies changes    *)
(* the cached proxies only; reset does that and zeroes call_iter; clear    *)
(* does that and empties both placeholder lists.  With propagate each has  *)
(* this effect on the module and on every wrapped module under it, without *)
(* propagate on the module alone; no other module changes.                 *)
(***************************************************************************)
ProxiesDropped(x) == [mods[x] EXCEPT !._output = None, !._input = None]

Zeroed(x) == [ProxiesDropped(x) EXCEPT !.call_iter = 0]

Emptied(x) == [Zeroed(x) EXCEPT !.fake_outputs = <<>>, !.fake_inputs = <<>>]

C8_ResetsNest ==
    [][\A m \in Paths, p \in BOOLEAN :
          /\ ResetProxies(m, p) =>
                /\ \A x \in Paths :
                      mods'[x] = IF x \in Reached(m, p) THEN ProxiesDropped(x) ELSE mods[x]
                /\ graph' = graph /\ UNCHANGED sessionVars
          /\ Reset(m, p) =>
                /\ \A x \in Paths :
                      mods'[x] = IF x \in Reached(m, p) THEN Zeroed(x) ELSE mods[x]
                /\ graph' = graph /\ UNCHANGED sessionVars
          /\ Clear(m, p) =>
                /\ \A x \in Paths :
                      mods'[x] = IF x \in Reached(m, p) THEN Emptied(x) ELSE mods[x]
                /\ graph' = graph /\ UNCHANGED sessionVars]_vars

\* The module under the root was called in placeholder mode, stepped by
\* next() and read, and was then cleared: the graph still has the node made
\* from its placeholder at a counter above 0, the module has neither.
C8_Witness ==
    /\ \E q \in DOMAIN graph :
          /\ graph[q].key = "t.h.output"
          /\ graph[q].value # NoValue
          /\ graph[q].call_iter > 0
    /\ mods["t.h"].fake_outputs = <<>> /\ mods["t.h"].fake_inputs = <<>>
    /\ mods["t.h"].call_iter = 0
    /\ mods["t.h"]._output = None /\ mods["t.h"]._input = None

(***************************************************************************)
(* A session on the instrumented model: Invokers are made, their scopes    *)
(* entered and left, and next() called.  The code has no guard on any of   *)
(* these, so a scope can be entered again.                                 *)
(***************************************************************************)
InitInvoker ==
    /\ mods = Instrumented
    /\ graph = <<>>
    /\ batch_size = 0
    /\ batch_start = 0
    /\ generation_idx = 0
    /\ prompts = <<>>
    /\ invokers = [i \in InvokerIds |-> NoInvoker]
    /\ entered = <<>>
    /\ watch = Off
    /\ raised = NoError

NextInvoker ==
    \/ \E i \in InvokerIds, raw \in RawInputs : Invoke(i, raw)
    \/ \E i \in InvokerIds : Enter(i)
    \/ \E i \in InvokerIds : Exit(i)
    \/ \E i \in InvokerIds : InvokerNext(i)

SpecInvoker == InitInvoker /\ [][NextInvoker]_vars

\* the number of examples of an Invoker's input
Examples(i) == Len(invokers[i].input)

\* the sum of the example counts over a sequence of scope entries
SumExamples(seq) ==
    LET f[k \in 0..Len(seq)] == IF k = 0 THEN 0 ELSE f[k - 1] + Examples(seq[k])
    IN  f[Len(seq)]

\* the re-rendered prompts of an input: per example, the decoded tokens of
\* its prepared ids, joined
Rendered(raw) ==
    LET ids == prepare_inputs(raw).input_ids
    IN  [k \in DOMAIN ids |-> join([j \in DOMAIN ids[k] |-> decode(ids[k][j])])]

\* the prompts of a sequence of scope entries
AllRendered(seq) ==
    LET f[k \in 0..Len(seq)] ==
            IF k = 0 THEN <<>> ELSE f[k - 1] \o Rendered(invokers[seq[k]].input)
    IN  f[Len(seq)]

(***************************************************************************)
(* C2.  After every scope entry the session's batch size is the sum of the *)
(* example counts of all the Invokers entered so far.                      *)
(* Fails: __enter__ assigns the batch size of the entered Invoker alone    *)
(* (Invoker.py:35).                                                        *)
(***************************************************************************)
C2_BatchSizeIsSum == batch_size = SumExamples(entered)

(***************************************************************************)
(* C3.  The session's prompt list is the concatenation, in entry order, of *)
(* each entered Invoker's prompts in example order: an entry appends as    *)
(* many prompts as the invocation has examples, as one block at the end,   *)
(* and no step removes, changes or reorders the prompts already there.     *)
(***************************************************************************)
C3_PromptsConcatenate ==
    [][/\ \A i \in InvokerIds :
             Enter(i) => /\ prompts' = prompts \o Rendered(invokers[i].input)
                         /\ Len(prompts') = Len(prompts) + Examples(i)
       /\ (\A i \in InvokerIds : ~Enter(i)) => prompts' = prompts
       /\ \A k \in DOMAIN prompts : k \in DOMAIN prompts' /\ prompts'[k] = prompts[k]
       /\ prompts' = AllRendered(entered')]_vars

\* Two Invokers have been entered, one of two examples after one of one:
\* the list holds the first one's prompt and then the second one's two.
C3_Witness ==
    /\ Len(entered) = 2
    /\ entered[1] # entered[2]
    /\ Examples(entered[1]) = 1 /\ Examples(entered[2]) = 2
    /\ prompts = <<"A", "A", "BB">>

(***************************************************************************)
(* C9, as claimed.  The session's generation_idx never decreases.          *)
(* Fails: entering a scope after next() sets it back to 0.                 *)
(***************************************************************************)
C9_NeverDecreases == [][generation_idx' >= generation_idx]_vars

(***************************************************************************)
(* C9, amended.  generation_idx is 0 at session start and decreases only   *)
(* at a scope entry, which sets it to 0; between scope entries it never    *)
(* decreases.                                                              *)
(***************************************************************************)
C9_DecreasesOnlyAtEntry ==
    /\ generation_idx = 0
    /\ [][/\ generation_idx' < generation_idx => \E i \in InvokerIds : Enter(i)
          /\ \A i \in InvokerIds : Enter(i) => generation_idx' = 0
          /\ (\A i \in InvokerIds : ~Enter(i)) => generation_idx' >= generation_idx]_vars

\* A second scope has been entered after next() had been called in the
\* first: the passes made outnumber the entries, and the index is back at 0.
C9_Witness ==
    /\ Len(entered) = 2
    /\ entered[1] # entered[2]
    /\ Len(mods["t"].fake_outputs) > Len(entered)
    /\ invokers[entered[1]].scope = "exited"
    /\ generation_idx = 0

(***************************************************************************)
(* C10.  Entering an Invoker's scope again after it has exited fails at    *)
(* once: no pass is run, and the prompt list, the batch size and           *)
(* generation_idx stay as they were.                                       *)
(* Fails: __enter__ has no check of the scope's state, __exit__ records    *)
(* nothing (Invoker.py:20-48); the entry runs again in full.               *)
(***************************************************************************)
C10_ReentryRefused ==
    [][\A i \in InvokerIds :
          (invokers[i].scope = "exited" /\ Enter(i))
              => UNCHANGED <<mods, prompts, batch_size, generation_idx>>]_vars

(***************************************************************************)
(* A trace: Invokers are made and entered, next() is called, and module    *)
(* outputs and inputs are read between the passes.                         *)
(***************************************************************************)
NextTrace ==
    \/ \E i \in InvokerIds, raw \in RawInputs : Invoke(i, raw)
    \/ \E i \in InvokerIds : Enter(i)
    \/ \E i \in InvokerIds : Exit(i)
    \/ \E i \in InvokerIds : InvokerNext(i)
    \/ \E m \in Paths, kind \in Kinds : Access(m, kind)

SpecTrace == InitInvoker /\ [][NextTrace]_vars

(***************************************************************************)
(* save(): on an instrumented host with or without a module that has an    *)
(* output attribute of its own, modules are stepped, outputs read and      *)
(* save() called.                                                          *)
(***************************************************************************)
InitSave ==
    /\ mods \in {Instrumented, Colliding}
    /\ graph = <<>>
    /\ batch_size = 1
    /\ batch_start = 0
    /\ generation_idx = 0
    /\ prompts = <<>>
    /\ invokers = [i \in InvokerIds |-> NoInvoker]
    /\ entered = <<>>
    /\ watch = Off
    /\ raised = NoError

NextSave ==
    \/ \E i \in InvokerIds, raw \in RawInputs : Invoke(i, raw)
    \/ \E i \in InvokerIds : Save(i)
    \/ \E m \in Paths, kind \in Kinds : Access(m, kind)
    \/ \E m \in Paths, k \in 1..2, p \in BOOLEAN : Advance(m, k, p)

SpecSave == InitSave /\ [][NextSave]_vars

(***************************************************************************)
(* C11.  save() returns a mapping with one entry per module of the host's  *)
(* tree, keyed by module path: the save-marked output proxy of the module  *)
(* for its current call iteration; a cached output proxy is reused, and    *)
(* for every other module exactly one argument node is appended.           *)
(* Fails: save() reads module.output, which on a module that had an        *)
(* output attribute before wrapping is that attribute, not the proxy       *)
(* (module.py:297-298, Invoker.py:67).                                     *)
(***************************************************************************)
SavedAll(i) ==
    /\ raised' = NoError
    /\ DOMAIN invokers'[i].saved = Paths
    /\ \A m \in Paths :
          LET c   == mods[m]._output
              c2  == mods'[m]._output
              key == mods[m].module_path \o ".output"
          IN  /\ c2 # None
              /\ invokers'[i].saved[m] = <<"save", c2>>
              /\ graph'[c2].target = "argument"
              /\ graph'[c2].key = key
              /\ graph'[c2].call_iter = mods[m].call_iter
              /\ c # None => (c2 = c /\ Appended(key) = {})
              /\ c = None => Cardinality(Appended(key)) = 1
    /\ AppendOnly
    /\ Len(graph') = Len(graph) + Cardinality({m \in Paths : mods[m]._output = None})

C11_SaveMapsEveryModule ==
    [][\A i \in InvokerIds : Save(i) => SavedAll(i)]_vars

(***************************************************************************)
(* The operations of Module on the instrumented host where "t.h" had an    *)
(* output attribute before wrapping: on "t.h" the reads and assignments go *)
(* through the relocated accessors nns_output / nns_input.                 *)
(***************************************************************************)
InitPreserved ==
    /\ mods = Colliding
    /\ graph = <<>>
    /\ batch_size = 1
    /\ batch_start = 0
    /\ generation_idx = 0
    /\ prompts = <<>>
    /\ invokers = [i \in InvokerIds |-> NoInvoker]
    /\ entered = <<>>
    /\ watch = Off
    /\ raised = NoError

SpecPreserved == InitPreserved /\ [][NextModule]_vars

(***************************************************************************)
(* C12.  On a module that had an attribute named output or input before    *)
(* wrapping, the names output and input still yield the original values    *)
(* and reading them appends no node, and nns_output / nns_input read and   *)
(* assign as output / input do on a module without such an attribute: a    *)
(* read appends and caches an argument node, an assignment appends a swap  *)
(* node referencing the current proxy and clears the cache.  The other     *)
(* modules keep their accessors at output / input.                         *)
(* Fails: the setter behind nns_output reads self.output, which on such a  *)
(* module is the original attribute and has no node (module.py:186).       *)
(***************************************************************************)
NamesKept(m) ==
    LET st == [mods |-> mods, graph |-> graph]
    IN  IF mods[m].preserved
        THEN /\ getattr(st, m, "output") = [st |-> st, val |-> HostAttr(m, "output")]
             /\ getattr(st, m, "input") = [st |-> st, val |-> HostAttr(m, "input")]
        ELSE /\ mods[m].output = <<"nns">>
             /\ mods[m].input = <<"nns">>

C12_RelocatedAccessors ==
    [][\A m \in Paths :
          /\ NamesKept(m)
          /\ ReadCached(m, "output") /\ ReadCached(m, "input")
          /\ ReadOutput(m) => ReadFresh(m, "output")
          /\ ReadInput(m) => ReadFresh(m, "input")
          /\ \A v \in AssignValues :
                /\ AssignOutput(m, v) => AssignedTo(m, "output", v)
                /\ AssignInput(m, v) => AssignedTo(m, "input", v)]_vars

(***************************************************************************)
(* The getters as functions of the placeholder list and the counter: the   *)
(* root module holds any list of up to MaxLen observed values and any      *)
(* counter up to MaxCount (as calls in placeholder mode and next() leave   *)
(* them), and its output and input are read.                               *)
(***************************************************************************)
Lists == UNION {[1..n -> Shapes] : n \in 0..MaxLen}

InitPlaceholder ==
    /\ \E L \in Lists, c \in 0..MaxCount :
          mods = [Instrumented EXCEPT
                     !["t"].fake_outputs = L,
                     !["t"].fake_inputs = [k \in DOMAIN L |-> <<L[k], <<>>>>],
                     !["t"].call_iter = c]
    /\ graph = <<>>
    /\ batch_size = 1
    /\ batch_start = 0
    /\ generation_idx = 0
    /\ prompts = <<>>
    /\ invokers = [i \in InvokerIds |-> NoInvoker]
    /\ entered = <<>>
    /\ watch = Off
    /\ raised = NoError

NextPlaceholder == \E m \in Paths, kind \in Kinds : Access(m, kind)

SpecPlaceholder == InitPlaceholder /\ [][NextPlaceholder]_vars

(***************************************************************************)
(* C13.  The placeholder of the argument node a read of output (input)     *)
(* creates, with counter c and placeholder list L: absent when L is empty, *)
(* L[c] when c < len(L), the last element of L when c >= len(L) > 0.  The  *)
(* read does not fail and changes neither L nor the counter.               *)
(***************************************************************************)
Placeholders(m, kind) ==
    IF kind = "output" THEN mods[m].fake_outputs ELSE mods[m].fake_inputs

C13_PlaceholderChosen ==
    [][\A m \in Paths, kind \in Kinds :
          (Access(m, kind) /\ Cached(mods, m, kind) = None)
              => LET L == Placeholders(m, kind)
                     c == mods[m].call_iter
                     p == Cached(mods', m, kind)
                 IN  /\ raised' = NoError
                     /\ p = Len(graph') /\ Len(graph') = Len(graph) + 1
                     /\ Len(L) = 0 => graph'[p].value = NoValue
                     /\ c < Len(L) => graph'[p].value = L[c + 1]
                     /\ (c >= Len(L) /\ Len(L) > 0) => graph'[p].value = L[Len(L)]
                     /\ \A x \in Paths :
                           /\ mods'[x].fake_outputs = mods[x].fake_outputs
                           /\ mods'[x].fake_inputs = mods[x].fake_inputs
                           /\ mods'[x].call_iter = mods[x].call_iter]_vars

\* The output was read with the counter past the end of a list whose first
\* and last entries differ, and the input with it: both nodes carry the last.
C13_Witness ==
    LET L == mods["t"].fake_outputs
    IN  /\ Len(L) >= 2 /\ L[1] # L[Len(L)]
        /\ mods["t"].call_iter >= Len(L)
        /\ mods["t"]._output # None /\ mods["t"]._input # None
        /\ graph[mods["t"]._output].value = L[Len(L)]
        /\ graph[mods["t"]._input].value = <<L[Len(L)], <<>>>>

(***************************************************************************)
(* The completion hook: the host from construction on, wrapped (once or    *)
(* again), its modules called in placeholder mode or not, stepped by       *)
(* next() and read.                                                        *)
(***************************************************************************)
NextHook ==
    \/ \E m \in Paths : Wrap(m)
    \/ \E m \in Paths : SetTracer(m)
    \/ \E m \in Paths, k \in 1..2, p \in BOOLEAN : ModuleNext(m, k, p)
    \/ \E m \in Paths : ReadOutput(m)
    \/ \E m \in Paths : ReadInput(m)
    \/ \E m \in Paths, fake \in BOOLEAN, sh \in Shapes : ModuleCall(m, fake, sh)

SpecHook == Init /\ [][NextHook]_vars

(***************************************************************************)
(* C14.  The completion hook of a wrapped module, firing in placeholder    *)
(* mode, clears the module's cached proxies, appends exactly one entry to  *)
(* its placeholder output list and one to its placeholder input list, and  *)
(* leaves its call_iter as it is; firing outside placeholder mode it       *)
(* changes nothing.  So no call of a module, however many hooks fire,      *)
(* changes a call_iter.                                                    *)
(***************************************************************************)
\* one firing of the hook of m, as a function of the modules
FiredOnce(m, sh) ==
    LET r == hook(mods, m, TRUE, sh, <<>>, sh)
    IN  /\ r[m]._output = None /\ r[m]._input = None
        /\ r[m].fake_outputs = Append(mods[m].fake_outputs, sh)
        /\ r[m].fake_inputs = Append(mods[m].fake_inputs, <<sh, <<>>>>)
        /\ \A x \in Paths :
              /\ r[x].call_iter = mods[x].call_iter
              /\ x # m => /\ r[x].fake_outputs = mods[x].fake_outputs
                          /\ r[x].fake_inputs = mods[x].fake_inputs
        /\ hook(mods, m, FALSE, sh, <<>>, sh) = mods

C14_HookFrame ==
    [][\A m \in Paths, sh \in Shapes :
          /\ FiredOnce(m, sh)
          /\ ModuleCall(m, FALSE, sh) => mods' = mods
          /\ ModuleCall(m, TRUE, sh) =>
                /\ Len(mods'[m].fake_outputs) = Len(mods[m].fake_outputs) + mods[m].hooks
                /\ Len(mods'[m].fake_inputs) = Len(mods[m].fake_inputs) + mods[m].hooks
                /\ \A k \in DOMAIN mods'[m].fake_outputs :
                      /\ mods'[m].fake_outputs[k] =
                            IF k <= Len(mods[m].fake_outputs)
                            THEN mods[m].fake_outputs[k] ELSE sh
                      /\ mods'[m].fake_inputs[k] =
                            IF k <= Len(mods[m].fake_inputs)
                            THEN mods[m].fake_inputs[k] ELSE <<sh, <<>>>>
                /\ mods[m].hooks > 0 => (mods'[m]._output = None /\ mods'[m]._input = None)
                /\ \A x \in Paths : mods'[x].call_iter = mods[x].call_iter
                /\ graph' = graph]_vars

\* The root was stepped by next() and read, and then called in placeholder
\* mode: the node of the read has the module's counter, which the hook left
\* alone, no proxy is cached, and the lists have the call's entry.
C14_Witness ==
    /\ mods["t"].call_iter > 0
    /\ mods["t"]._output = None
    /\ Len(mods["t"].fake_outputs) = 1 /\ Len(mods["t"].fake_inputs) = 1
    /\ \E q \in DOMAIN graph :
          /\ graph[q].key = "t.output"
          /\ graph[q].call_iter = mods["t"].call_iter
          /\ graph[q].value = NoValue

(***************************************************************************)
(* What the passes of the Invoker entered last have the modules observe:   *)
(* the shape of its input at entry, then one step of one filler token per  *)
(* example for each next() since.                                          *)
(***************************************************************************)
LastEntered == entered[Len(entered)]

OwnPasses ==
    <<shape_of(prepare_inputs(invokers[LastEntered].input).input_ids)>>
        \o [k \in 1..generation_idx |-> <<batch_size, 1>>]

\* the scopes entered so far are of different Invokers, and no pass ran on
\* an empty batch (next() before the first entry)
ProperUse ==
    /\ entered # <<>>
    /\ \A j, k \in DOMAIN entered : j # k => entered[j] # entered[k]
    /\ \A m \in Paths : \A k \in DOMAIN mods[m].fake_outputs :
          mods[m].fake_outputs[k][1] > 0

(***************************************************************************)
(* C15.  A module's placeholder lists are indexed by call iteration within *)
(* the current invocation: entry i of the output list is what the module   *)
(* observed at its i-th call during the passes of the Invoker entered      *)
(* last, so an output read at call iteration 0 inside its scope gets the   *)
(* placeholder of that Invoker's own entry pass.                           *)
(* Fails: nothing on scope entry empties the lists (Invoker.py:20-26), so  *)
(* the entries of an earlier Invoker stay in front.                        *)
(***************************************************************************)
C15_ListsOfCurrentInvoker ==
    [][ProperUse =>
          \A m \in Paths :
              /\ mods[m].fake_outputs = OwnPasses
              /\ (Access(m, "output") /\ mods[m]._output = None /\ mods[m].call_iter = 0)
                    => graph'[Len(graph')].value = OwnPasses[1]]_vars

(***************************************************************************)
(* C16.  Module call indices advance in lockstep with generation_idx:      *)
(* after a scope entry and n calls of Invoker.next(), a read of a module's *)
(* output appends an argument node whose call-iteration index is n, the    *)
(* current generation_idx.                                                 *)
(* Fails: Invoker.next() adds to generation_idx only (Invoker.py:52); no   *)
(* module's call_iter moves, and the node gets call_iter (module.py:171).  *)
(***************************************************************************)
C16_IndexFollowsGeneration ==
    [][\A m \in Paths :
          (entered # <<>> /\ Access(m, "output") /\ mods[m]._output = None)
              => graph'[Len(graph')].call_iter = generation_idx]_vars

(***************************************************************************)
(* C17.  A scope entry sets generation_idx to 0; each Invoker.next() adds  *)
(* exactly 1 to it and runs exactly one further shape-only pass, on an     *)
(* input of one filler token per example of the session's batch size.  So  *)
(* after an entry and n calls of next() generation_idx is n and n + 1      *)
(* passes have run since the entry.                                        *)
(***************************************************************************)
\* every module observed one more call, of this shape
OnePass(sh) ==
    \A m \in Paths :
        /\ mods'[m].fake_outputs = Append(mods[m].fake_outputs, sh)
        /\ mods'[m].fake_inputs = Append(mods[m].fake_inputs, <<sh, <<>>>>)

\* the last n entries of a sequence
LastOf(seq, n) == SubSeq(seq, Len(seq) - n + 1, Len(seq))

C17_StepsAndPasses ==
    [][/\ \A i \in InvokerIds :
            /\ Enter(i) => generation_idx' = 0
            /\ InvokerNext(i)
                  => /\ generation_idx' = generation_idx + 1
                     /\ OnePass(IF batch_size = 0 THEN <<0, 0>> ELSE <<batch_size, 1>>)
                     /\ UNCHANGED <<batch_size, prompts, graph>>
       /\ entered # <<>>
            => \A m \in Paths :
                  /\ Len(mods[m].fake_outputs) >= generation_idx + 1
                  /\ LastOf(mods[m].fake_outputs, generation_idx + 1) = OwnPasses]_vars

\* An Invoker of two examples was entered and next() called twice: the
\* index is 2, and every module observed three passes, the last two of one
\* filler token per example.
C17_Witness ==
    /\ Len(entered) = 1
    /\ batch_size = 2
    /\ generation_idx = 2
    /\ \A m \in Paths :
          mods[m].fake_outputs = <<<<2, 2>>, <<2, 1>>, <<2, 1>>>>

(***************************************************************************)
(* C18.  next(k, propagate=True) adds the same k to the call_iter of the   *)
(* module it is called on and of every wrapped module under it, so modules *)
(* of the subtree with equal counters before the call have equal counters  *)
(* after it.  Fails: the module itself gets k and then, met again in       *)
(* modules(), 1 more; the modules under it get the default 1, not k        *)
(* (module.py:106, 110-113).                                               *)
(***************************************************************************)
C18_SubtreeInLockstep ==
    [][\A m \in Paths, k \in 1..2 :
          (IsModule(mods, m) /\ ModuleNext(m, k, TRUE))
              => /\ \A x \in Reached(m, TRUE) :
                        mods'[x].call_iter = mods[x].call_iter + k
                 /\ \A x, y \in Reached(m, TRUE) :
                        mods[x].call_iter = mods[y].call_iter
                            => mods'[x].call_iter = mods'[y].call_iter]_vars

(***************************************************************************)
(* C19.  Whenever a module holds a cached output or input proxy, the       *)
(* call_iter recorded in the proxy's argument node is the module's current *)
(* call_iter: every operation that changes the counter drops the cached    *)
(* proxies, and a read records the counter of the moment.                  *)
(***************************************************************************)
C19_CachedIsCurrent ==
    \A m \in Paths, kind \in Kinds :
        Cached(mods, m, kind) # None
            => /\ Cached(mods, m, kind) \in DOMAIN graph
               /\ graph[Cached(mods, m, kind)].target = "argument"
               /\ graph[Cached(mods, m, kind)].key = m \o "." \o kind
               /\ graph[Cached(mods, m, kind)].call_iter = mods[m].call_iter

\* A module was read, advanced, and read again: its cached input proxy is
\* the newer node, recorded at the advanced counter, and the older node of
\* the same key stays in the graph at the old counter.
C19_Witness ==
    \E m \in Paths :
        /\ mods[m].call_iter = 1
        /\ mods[m]._input # None
        /\ graph[mods[m]._input].call_iter = 1
        /\ \E q \in DOMAIN graph :
              /\ q < mods[m]._input
              /\ graph[q].key = m \o ".input"
              /\ graph[q].call_iter = 0

(***************************************************************************)
(* Invoker scopes whose entry may fail in the host model.                  *)
(***************************************************************************)
NextEntry ==
    \/ \E i \in InvokerIds, raw \in RawInputs : Invoke(i, raw)
    \/ \E i \in InvokerIds : Enter(i)
    \/ \E i \in InvokerIds, at \in FailPoints, done \in 0..(Len(call_order) - 1) :
          EnterRaises(i, at, done)
    \/ \E i \in InvokerIds : Exit(i)
    \/ \E i \in InvokerIds : InvokerNext(i)

SpecEntry == InitInvoker /\ [][NextEntry]_vars

(***************************************************************************)
(* C20.  If prepare_inputs or the shape-only pass raises during a scope    *)
(* entry, the error leaves the entry, the session's prompt list and batch  *)
(* size are what they were before it, the Invoker is as it was (tokens and *)
(* ids unset if it was never entered), and generation_idx is 0.            *)
(***************************************************************************)
C20_FailedEntryRecordsNothing ==
    [][\A i \in InvokerIds, at \in FailPoints, done \in 0..(Len(call_order) - 1) :
          EnterRaises(i, at, done)
              => /\ raised' # NoError
                 /\ generation_idx' = 0
                 /\ prompts' = prompts
                 /\ batch_size' = batch_size
                 /\ invokers' = invokers
                 /\ invokers[i].scope = "new"
                       => /\ invokers'[i].tokens = NoValue
                          /\ invokers'[i].ids = NoValue
                 /\ entered' = entered
                 /\ graph' = graph]_vars

\* The first Invoker, of the prompt "A", was entered and stepped once; the
\* entry of the second, of "BB", then failed in the pass after the first
\* module call: the error is out, the prompt list and the batch size are
\* the first Invoker's, the second has no tokens and no ids, and
\* generation_idx is back at 0.
C20_Witness ==
    /\ raised = "HostError"
    /\ entered = <<"i1">>
    /\ prompts = <<"A">> /\ batch_size = 1
    /\ generation_idx = 0
    /\ invokers["i2"].made /\ invokers["i2"].scope = "new"
    /\ invokers["i2"].input = << <<"B", "B">> >>
    /\ invokers["i2"].tokens = NoValue /\ invokers["i2"].ids = NoValue
    /\ mods[call_order[1]].fake_outputs = <<<<1, 1>>, <<1, 1>>, <<1, 2>>>>
    /\ Len(mods[call_order[Len(call_order)]].fake_outputs) = 2

====
